---- MODULE Spec2Model ----
\* Model of src/bot_prefect.py: the Prefect flow main_flow, which runs the task
\* generate_quote (a Gemini call wrapped in error classification) and hands its
\* result to the task to_telegram (a Telegram sendMessage POST).
\*
\* Python strings are modelled as sequences of one-character strings, so that
\* str.lower(), the `in` substring test and f-string concatenation are computed
\* rather than assumed.  The emoji that open the printed lines are left out of
\* the texts; everything after them is verbatim.
EXTENDS Integers, Sequences, FiniteSets, TLC

VARIABLES
    GOOGLE_API_KEY,     \* line 11, os.getenv result
    TELEGRAM_TOKEN,     \* line 12
    TELEGRAM_CHAT_ID,   \* line 13
    pc,                 \* position of the flow run
    log,                \* the printed lines, in order, each tagged with its task
    attempts,           \* runs of generate_quote's body started by the task wrapper
    slept,              \* seconds the task wrapper has waited between attempts
    ctorCalls,          \* calls of ChatGoogleGenerativeAI(...)
    invokes,            \* calls of llm.invoke
    genExc,             \* exception caught at line 45 (NoExc when none)
    genOutcome,         \* how the last run of generate_quote's body ended
    ret,                \* value returned by generate_quote's body
    quote,              \* main_flow's local `quote` (line 111)
    tgCalls,            \* calls of to_telegram
    msg,                \* to_telegram's parameter
    url,                \* to_telegram's local `url` (line 71)
    data,               \* to_telegram's local `data` (lines 73-77)
    posts,              \* the requests.post calls made, in order
    response,           \* the response requests.post returned (NoResponse when none)
    tgExc,              \* exception caught at line 91 (NoExc when none)
    tgOutcome           \* how to_telegram's body ended

vars == <<GOOGLE_API_KEY, TELEGRAM_TOKEN, TELEGRAM_CHAT_ID, pc, log, attempts, slept,
          ctorCalls, invokes, genExc, genOutcome, ret, quote, tgCalls, msg, url, data,
          posts, response, tgExc, tgOutcome>>

----------------------------------------------------------------------------
\* Python values

\* None and str values; a str carries its characters in s.
None == [none |-> TRUE, s |-> <<>>]

PyStr(s) == [none |-> FALSE, s |-> s]

\* Truthiness as `not v` tests it (line 67): None and "" are falsy.
Falsy(v) == v.none \/ Len(v.s) = 0

----------------------------------------------------------------------------
\* String literals of the source

\* '<newline>ACTION TIME! Initiating connection to Gemini AI...' (line 20)
ActionTimeMsg ==
    <<"\n","A","C","T","I","O","N"," ","T","I","M","E","!"," ","I","n","i","t","i","a","t",
      "i","n","g"," ","c","o","n","n","e","c","t","i","o","n"," ","t","o"," ","G","e","m",
      "i","n","i"," ","A","I",".",".",".">>

\* '------------------------------------------------' (lines 39, 41)
RuleLine ==
    <<"-","-","-","-","-","-","-","-","-","-","-","-","-","-","-","-","-","-","-","-","-",
      "-","-","-","-","-","-","-","-","-","-","-","-","-","-","-","-","-","-","-","-","-",
      "-","-","-","-","-","-">>

\* 'AI MENTOR SAYS:<newline>' (line 40)
MentorPrefix ==
    <<"A","I"," ","M","E","N","T","O","R"," ","S","A","Y","S",":","\n">>

\* 'Gemini Auth Error: Invalid API Key.' (line 51)
GeminiAuthMsg ==
    <<"G","e","m","i","n","i"," ","A","u","t","h"," ","E","r","r","o","r",":"," ","I","n",
      "v","a","l","i","d"," ","A","P","I"," ","K","e","y",".">>

\* 'Gemini Quota Error: Rate limit exceeded.' (line 53)
GeminiQuotaMsg ==
    <<"G","e","m","i","n","i"," ","Q","u","o","t","a"," ","E","r","r","o","r",":"," ","R",
      "a","t","e"," ","l","i","m","i","t"," ","e","x","c","e","e","d","e","d",".">>

\* 'Gemini Network Error: Failed to connect.' (line 55)
GeminiNetworkMsg ==
    <<"G","e","m","i","n","i"," ","N","e","t","w","o","r","k"," ","E","r","r","o","r",":",
      " ","F","a","i","l","e","d"," ","t","o"," ","c","o","n","n","e","c","t",".">>

\* 'Gemini Internal Error (Details hidden).' (line 57)
GeminiInternalMsg ==
    <<"G","e","m","i","n","i"," ","I","n","t","e","r","n","a","l"," ","E","r","r","o","r",
      " ","(","D","e","t","a","i","l","s"," ","h","i","d","d","e","n",")",".">>

\* 'Error: Telegram credentials are missing.' (line 68)
CredentialsMissingMsg ==
    <<"E","r","r","o","r",":"," ","T","e","l","e","g","r","a","m"," ","c","r","e","d","e",
      "n","t","i","a","l","s"," ","a","r","e"," ","m","i","s","s","i","n","g",".">>

\* 'https://api.telegram.org/bot' (line 71)
UrlPrefix ==
    <<"h","t","t","p","s",":","/","/","a","p","i",".","t","e","l","e","g","r","a","m",".",
      "o","r","g","/","b","o","t">>

\* '/sendMessage' (line 71)
UrlSuffix ==
    <<"/","s","e","n","d","M","e","s","s","a","g","e">>

\* 'Markdown' (line 76)
Markdown ==
    <<"M","a","r","k","d","o","w","n">>

\* 'Success: Message sent to Telegram!' (line 85)
SuccessMsg ==
    <<"S","u","c","c","e","s","s",":"," ","M","e","s","s","a","g","e"," ","s","e","n","t",
      " ","t","o"," ","T","e","l","e","g","r","a","m","!">>

\* 'Telegram Refused: Status Code ' (line 88)
RefusedPrefix ==
    <<"T","e","l","e","g","r","a","m"," ","R","e","f","u","s","e","d",":"," ","S","t","a",
      "t","u","s"," ","C","o","d","e"," ">>

\* 'Error Details: ' (line 89)
DetailsPrefix ==
    <<"E","r","r","o","r"," ","D","e","t","a","i","l","s",":"," ">>

\* 'Network Error: Failed to connect to Telegram API.' (line 97)
TgNetworkMsg ==
    <<"N","e","t","w","o","r","k"," ","E","r","r","o","r",":"," ","F","a","i","l","e","d",
      " ","t","o"," ","c","o","n","n","e","c","t"," ","t","o"," ","T","e","l","e","g","r",
      "a","m"," ","A","P","I",".">>

\* 'Timeout Error: Telegram API did not respond.' (line 99)
TgTimeoutMsg ==
    <<"T","i","m","e","o","u","t"," ","E","r","r","o","r",":"," ","T","e","l","e","g","r",
      "a","m"," ","A","P","I"," ","d","i","d"," ","n","o","t"," ","r","e","s","p","o","n",
      "d",".">>

\* 'SSL Error: Certificate verification failed.' (line 101)
TgSSLMsg ==
    <<"S","S","L"," ","E","r","r","o","r",":"," ","C","e","r","t","i","f","i","c","a","t",
      "e"," ","v","e","r","i","f","i","c","a","t","i","o","n"," ","f","a","i","l","e","d",
      ".">>

\* 'Telegram Send Failed: Unknown error occurred.' (line 103)
TgUnknownMsg ==
    <<"T","e","l","e","g","r","a","m"," ","S","e","n","d"," ","F","a","i","l","e","d",":",
      " ","U","n","k","n","o","w","n"," ","e","r","r","o","r"," ","o","c","c","u","r","r",
      "e","d",".">>

\* '401' (line 50)
N401 ==
    <<"4","0","1">>

\* 'api_key' (line 50)
NApiKey ==
    <<"a","p","i","_","k","e","y">>

\* '429' (line 52)
N429 ==
    <<"4","2","9">>

\* 'quota' (line 52)
NQuota ==
    <<"q","u","o","t","a">>

\* 'connection' (lines 54, 96)
NConnection ==
    <<"c","o","n","n","e","c","t","i","o","n">>

\* 'dns' (line 96)
NDns ==
    <<"d","n","s">>

\* 'timeout' (line 98)
NTimeout ==
    <<"t","i","m","e","o","u","t">>

\* 'ssl' (line 100)
NSsl ==
    <<"s","s","l">>

\* 'ABCDEFGHIJKLMNOPQRSTUVWXYZ'
UpperChars ==
    <<"A","B","C","D","E","F","G","H","I","J","K","L","M","N","O","P","Q","R","S","T","U",
      "V","W","X","Y","Z">>

\* 'abcdefghijklmnopqrstuvwxyz'
LowerChars ==
    <<"a","b","c","d","e","f","g","h","i","j","k","l","m","n","o","p","q","r","s","t","u",
      "v","w","x","y","z">>

\* '0123456789'
DigitChars ==
    <<"0","1","2","3","4","5","6","7","8","9">>

----------------------------------------------------------------------------
\* String operations

\* str.lower() on one character.
LowerChar(c) ==
    IF \E i \in 1..Len(UpperChars) : UpperChars[i] = c
    THEN LowerChars[CHOOSE i \in 1..Len(UpperChars) : UpperChars[i] = c]
    ELSE c

\* str(e).lower() (lines 48, 94)
Lower(s) == [i \in 1..Len(s) |-> LowerChar(s[i])]

\* `needle in hay` on strings (lines 50-54, 96-100)
Contains(hay, needle) ==
    \E i \in 1..(Len(hay) - Len(needle) + 1) :
        SubSeq(hay, i, i + Len(needle) - 1) = needle

\* Decimal formatting of a non-negative int inside an f-string (line 88).
RECURSIVE IntToStr(_)
IntToStr(n) ==
    IF n < 10 THEN <<DigitChars[n + 1]>>
    ELSE IntToStr(n \div 10) \o <<DigitChars[(n % 10) + 1]>>

----------------------------------------------------------------------------
\* Inputs: the credentials the environment may hold, what the model may answer,
\* what the two remote calls may raise, what Telegram may respond.

\* 'AIzaK1'
ApiKeyValue ==
    <<"A","I","z","a","K","1">>

\* '77:AbC'
TokenValue ==
    <<"7","7",":","A","b","C">>

\* '-1001'
ChatIdValue ==
    <<"-","1","0","0","1">>

\* 'Stay hungry.'
QuoteA ==
    <<"S","t","a","y"," ","h","u","n","g","r","y",".">>

\* 'Ship it.'
QuoteB ==
    <<"S","h","i","p"," ","i","t",".">>

\* '401 Unauthorized'
Txt401 ==
    <<"4","0","1"," ","U","n","a","u","t","h","o","r","i","z","e","d">>

\* 'API_KEY_INVALID'
TxtApiKey ==
    <<"A","P","I","_","K","E","Y","_","I","N","V","A","L","I","D">>

\* '429 Too Many Requests'
Txt429 ==
    <<"4","2","9"," ","T","o","o"," ","M","a","n","y"," ","R","e","q","u","e","s","t","s">>

\* 'Quota exceeded'
TxtQuota ==
    <<"Q","u","o","t","a"," ","e","x","c","e","e","d","e","d">>

\* 'Connection reset'
TxtConnReset ==
    <<"C","o","n","n","e","c","t","i","o","n"," ","r","e","s","e","t">>

\* '429 after 401'
Txt401And429 ==
    <<"4","2","9"," ","a","f","t","e","r"," ","4","0","1">>

\* 'Connection quota hit'
TxtConnQuota ==
    <<"C","o","n","n","e","c","t","i","o","n"," ","q","u","o","t","a"," ","h","i","t">>

\* '500 Internal'
Txt500 ==
    <<"5","0","0"," ","I","n","t","e","r","n","a","l">>

\* 'bad key '
TxtBadKey ==
    <<"b","a","d"," ","k","e","y"," ">>

\* 'api_key is required'
TxtCtorApiKey ==
    <<"a","p","i","_","k","e","y"," ","i","s"," ","r","e","q","u","i","r","e","d">>

\* 'credentials not found'
TxtCtorCreds ==
    <<"c","r","e","d","e","n","t","i","a","l","s"," ","n","o","t"," ","f","o","u","n","d">>

\* 'NewConnectionError url: /bot'
TxtMaxRetries ==
    <<"N","e","w","C","o","n","n","e","c","t","i","o","n","E","r","r","o","r"," ","u","r",
      "l",":"," ","/","b","o","t">>

\* 'HTTPSConnectionPool: Read timeout url: /bot'
TxtPoolTimeout ==
    <<"H","T","T","P","S","C","o","n","n","e","c","t","i","o","n","P","o","o","l",":"," ",
      "R","e","a","d"," ","t","i","m","e","o","u","t"," ","u","r","l",":"," ","/","b","o",
      "t">>

\* 'Read Timeout'
TxtReadTimeout ==
    <<"R","e","a","d"," ","T","i","m","e","o","u","t">>

\* 'DNS lookup failed'
TxtDns ==
    <<"D","N","S"," ","l","o","o","k","u","p"," ","f","a","i","l","e","d">>

\* 'SSL: CERTIFICATE_VERIFY_FAILED'
TxtSsl ==
    <<"S","S","L",":"," ","C","E","R","T","I","F","I","C","A","T","E","_","V","E","R","I",
      "F","Y","_","F","A","I","L","E","D">>

\* 'ssl handshake timeout'
TxtSslTimeout ==
    <<"s","s","l"," ","h","a","n","d","s","h","a","k","e"," ","t","i","m","e","o","u","t">>

\* 'Invalid URL /bot'
TxtInvalidUrl ==
    <<"I","n","v","a","l","i","d"," ","U","R","L"," ","/","b","o","t">>

\* '{"ok":true}'
BodyOk ==
    <<"{","\"","o","k","\"",":","t","r","u","e","}">>

\* '{"error":"bad"}'
BodyBad ==
    <<"{","\"","e","r","r","o","r","\"",":","\"","b","a","d","\"","}">>

\* What os.getenv may return for each variable: unset, set to "", or set.
ApiKeyValues == {None, PyStr(ApiKeyValue)}

TokenValues == {None, PyStr(<<>>), PyStr(TokenValue)}

ChatIdValues == {None, PyStr(<<>>), PyStr(ChatIdValue)}

\* response.content of a successful llm.invoke
Quotes == {QuoteA, QuoteB}

\* An exception: its class and str(e).
Exc(cls, text) == [cls |-> cls, text |-> text]

NoExc == Exc("", <<>>)

\* The classes raised by the two clients; all derive from Exception.
ExceptionSubclasses ==
    {"ValueError", "DefaultCredentialsError", "ChatGoogleGenerativeAIError",
     "ResourceExhausted", "ConnectionError", "Timeout", "SSLError", "InvalidURL"}

\* What ChatGoogleGenerativeAI(...) may raise; it has no key to work with only
\* when GOOGLE_API_KEY is unset.
CtorErrors(key) ==
    IF Falsy(key)
    THEN {Exc("ValueError", TxtCtorApiKey), Exc("DefaultCredentialsError", TxtCtorCreds)}
    ELSE {}

\* What llm.invoke may raise.  A client error may quote the key it was given.
ModelErrors(key) ==
    {Exc("ChatGoogleGenerativeAIError", Txt401),
     Exc("ChatGoogleGenerativeAIError", TxtApiKey),
     Exc("ResourceExhausted", Txt429),
     Exc("ResourceExhausted", TxtQuota),
     Exc("ConnectionError", TxtConnReset),
     Exc("ChatGoogleGenerativeAIError", Txt401And429),
     Exc("ResourceExhausted", TxtConnQuota),
     Exc("ChatGoogleGenerativeAIError", Txt500),
     Exc("ValueError", TxtBadKey \o key.s)}

\* What requests.post may raise.  requests' errors quote the request URL, which
\* holds the bot token.
TransportErrors(token) ==
    {Exc("ConnectionError", TxtMaxRetries \o token.s \o UrlSuffix),
     Exc("Timeout", TxtPoolTimeout \o token.s \o UrlSuffix),
     Exc("Timeout", TxtReadTimeout),
     Exc("ConnectionError", TxtDns),
     Exc("SSLError", TxtSsl),
     Exc("SSLError", TxtSslTimeout),
     Exc("InvalidURL", TxtInvalidUrl \o token.s \o UrlSuffix)}

StatusCodes == {200, 201, 400, 403, 500}

Bodies == {BodyOk, BodyBad}

Response(status_code, text) == [status_code |-> status_code, text |-> text]

NoResponse == Response(0, <<>>)

Responses == {Response(c, b) : c \in StatusCodes, b \in Bodies}

----------------------------------------------------------------------------
\* Task configuration (decorators)

\* @task(..., retries=3, ...) on generate_quote
retries == 3

\* @task(..., retry_delay_seconds=5) on generate_quote
retry_delay_seconds == 5

----------------------------------------------------------------------------
\* Helpers of the two task bodies

Line(task, text) == [task |-> task, text |-> text]

\* Faulty variant: the handler is written for connection failures only.
GenCatchesConnectionOnly(cls) == cls = "ConnectionError"

\* Faulty variant: the body has no handler.
GenCatchesNothing(cls) == FALSE

\* `except Exception as e` of generate_quote
GenCatches(cls) == cls \in ExceptionSubclasses

\* Faulty variant: the handler names requests' connection and timeout errors only.
TgCatchesRequestsOnly(cls) == cls \in {"ConnectionError", "Timeout"}

\* `except Exception as e` of to_telegram
TgCatches(cls) == cls \in ExceptionSubclasses

\* Faulty variant: the quota test placed before the auth test.
GeminiSafeMsgQuotaFirst(text) ==
    LET error_str == Lower(text) IN
    IF Contains(error_str, N429) \/ Contains(error_str, NQuota) THEN GeminiQuotaMsg
    ELSE IF Contains(error_str, N401) \/ Contains(error_str, NApiKey) THEN GeminiAuthMsg
    ELSE IF Contains(error_str, NConnection) THEN GeminiNetworkMsg
    ELSE GeminiInternalMsg

\* The if/elif chain of generate_quote's handler, on str(e).
GeminiSafeMsg(text) ==
    LET error_str == Lower(text) IN
    IF Contains(error_str, N401) \/ Contains(error_str, NApiKey) THEN GeminiAuthMsg
    ELSE IF Contains(error_str, N429) \/ Contains(error_str, NQuota) THEN GeminiQuotaMsg
    ELSE IF Contains(error_str, NConnection) THEN GeminiNetworkMsg
    ELSE GeminiInternalMsg

\* The three prints of the success path of generate_quote.
QuoteLines(ai_msg) ==
    <<Line("generate_quote", RuleLine),
      Line("generate_quote", MentorPrefix \o ai_msg),
      Line("generate_quote", RuleLine)>>

\* Faulty variant: `and` in place of `or`.
CredentialsMissingBoth(token, chat_id) == Falsy(token) /\ Falsy(chat_id)

\* The guard of to_telegram.
CredentialsMissing(token, chat_id) == Falsy(token) \/ Falsy(chat_id)

\* The f-string of the endpoint.
Url(token) == UrlPrefix \o token.s \o UrlSuffix

\* Faulty variant: the two values swapped.
DataSwapped(chat_id, m) == [chat_id |-> m, text |-> chat_id, parse_mode |-> Markdown]

\* The JSON body.
Data(chat_id, m) == [chat_id |-> chat_id, text |-> m, parse_mode |-> Markdown]

\* Faulty variant: every 2xx status taken as success.
ResponseLinesAny2xx(r) ==
    IF r.status_code \div 100 = 2
    THEN <<Line("to_telegram", SuccessMsg)>>
    ELSE <<Line("to_telegram", RefusedPrefix \o IntToStr(r.status_code)),
           Line("to_telegram", DetailsPrefix \o r.text)>>

\* The prints that follow a response.
ResponseLines(r) ==
    IF r.status_code = 200
    THEN <<Line("to_telegram", SuccessMsg)>>
    ELSE <<Line("to_telegram", RefusedPrefix \o IntToStr(r.status_code)),
           Line("to_telegram", DetailsPrefix \o r.text)>>

\* Faulty variant: the timeout test placed before the connection test.
TelegramSafeMsgTimeoutFirst(text) ==
    LET error_str == Lower(text) IN
    IF Contains(error_str, NTimeout) THEN TgTimeoutMsg
    ELSE IF Contains(error_str, NConnection) \/ Contains(error_str, NDns) THEN TgNetworkMsg
    ELSE IF Contains(error_str, NSsl) THEN TgSSLMsg
    ELSE TgUnknownMsg

\* Faulty variant: the fallback line carries str(e).
TelegramSafeMsgWithDetails(text) ==
    LET error_str == Lower(text) IN
    IF Contains(error_str, NConnection) \/ Contains(error_str, NDns) THEN TgNetworkMsg
    ELSE IF Contains(error_str, NTimeout) THEN TgTimeoutMsg
    ELSE IF Contains(error_str, NSsl) THEN TgSSLMsg
    ELSE TgUnknownMsg \o <<" ">> \o text

\* The if/elif chain of to_telegram's handler, on str(e).
TelegramSafeMsg(text) ==
    LET error_str == Lower(text) IN
    IF Contains(error_str, NConnection) \/ Contains(error_str, NDns) THEN TgNetworkMsg
    ELSE IF Contains(error_str, NTimeout) THEN TgTimeoutMsg
    ELSE IF Contains(error_str, NSsl) THEN TgSSLMsg
    ELSE TgUnknownMsg

----------------------------------------------------------------------------
\* The flow

Init ==
    /\ GOOGLE_API_KEY \in ApiKeyValues
    /\ TELEGRAM_TOKEN \in TokenValues
    /\ TELEGRAM_CHAT_ID \in ChatIdValues
    /\ pc = "gen_start"
    /\ log = <<>>
    /\ attempts = 0
    /\ slept = 0
    /\ ctorCalls = 0
    /\ invokes = 0
    /\ genExc = NoExc
    /\ genOutcome = "none"
    /\ ret = None
    /\ quote = None
    /\ tgCalls = 0
    /\ msg = None
    /\ url = <<>>
    /\ data = Data(None, None)
    /\ posts = <<>>
    /\ response = NoResponse
    /\ tgExc = NoExc
    /\ tgOutcome = "none"

\* main_flow line 111 (or the task wrapper's re-run): generate_quote's body starts.
GenerateQuoteStart ==
    /\ pc = "gen_start"
    /\ attempts' = attempts + 1
    /\ log' = Append(log, Line("generate_quote", ActionTimeMsg))
    /\ pc' = "gen_ctor"
    /\ UNCHANGED <<GOOGLE_API_KEY, TELEGRAM_TOKEN, TELEGRAM_CHAT_ID, slept, ctorCalls,
                   invokes, genExc, genOutcome, ret, quote, tgCalls, msg, url, data,
                   posts, response, tgExc, tgOutcome>>

\* Lines 24-32: the client is built inside the try block.
ConstructLLM ==
    /\ pc = "gen_ctor"
    /\ ctorCalls' = ctorCalls + 1
    /\ \/ /\ pc' = "gen_invoke"
          /\ UNCHANGED genExc
       \/ \E e \in CtorErrors(GOOGLE_API_KEY) :
            /\ genExc' = e
            /\ pc' = "gen_except"
    /\ UNCHANGED <<GOOGLE_API_KEY, TELEGRAM_TOKEN, TELEGRAM_CHAT_ID, log, attempts,
                   slept, invokes, genOutcome, ret, quote, tgCalls, msg, url, data,
                   posts, response, tgExc, tgOutcome>>

\* Lines 35-43: llm.invoke, then either the prints and `return ai_msg`, or a raise.
InvokeLLM ==
    /\ pc = "gen_invoke"
    /\ invokes' = invokes + 1
    /\ \/ \E ai_msg \in Quotes :
            /\ log' = log \o QuoteLines(ai_msg)
            /\ ret' = PyStr(ai_msg)
            /\ genOutcome' = "returned"
            /\ pc' = "gen_end"
            /\ UNCHANGED genExc
       \/ \E e \in ModelErrors(GOOGLE_API_KEY) :
            /\ genExc' = e
            /\ pc' = "gen_except"
            /\ UNCHANGED <<log, ret, genOutcome>>
    /\ UNCHANGED <<GOOGLE_API_KEY, TELEGRAM_TOKEN, TELEGRAM_CHAT_ID, attempts, slept,
                   ctorCalls, quote, tgCalls, msg, url, data, posts, response, tgExc,
                   tgOutcome>>

\* Lines 45-60: the handler classifies, prints and returns safe_msg; an exception
\* the except clause does not match leaves the body.
GenerateQuoteExcept ==
    /\ pc = "gen_except"
    /\ IF GenCatches(genExc.cls)
       THEN LET safe_msg == GeminiSafeMsg(genExc.text) IN
            /\ log' = Append(log, Line("generate_quote", safe_msg))
            /\ ret' = PyStr(safe_msg)
            /\ genOutcome' = "returned"
       ELSE /\ genOutcome' = "raised"
            /\ UNCHANGED <<log, ret>>
    /\ pc' = "gen_end"
    /\ UNCHANGED <<GOOGLE_API_KEY, TELEGRAM_TOKEN, TELEGRAM_CHAT_ID, attempts, slept,
                   ctorCalls, invokes, genExc, quote, tgCalls, msg, url, data, posts,
                   response, tgExc, tgOutcome>>

\* Line 15 and line 111: the task wrapper gives the body's return value to
\* main_flow; a body that raised is run again after retry_delay_seconds while
\* retries remain, and fails the flow when none do.
GenerateQuoteEnd ==
    /\ pc = "gen_end"
    /\ IF genOutcome = "returned"
       THEN /\ quote' = ret
            /\ pc' = "tg_start"
            /\ UNCHANGED slept
       ELSE IF attempts <= retries
       THEN /\ slept' = slept + retry_delay_seconds
            /\ pc' = "gen_start"
            /\ UNCHANGED quote
       ELSE /\ pc' = "failed"
            /\ UNCHANGED <<quote, slept>>
    /\ UNCHANGED <<GOOGLE_API_KEY, TELEGRAM_TOKEN, TELEGRAM_CHAT_ID, log, attempts,
                   ctorCalls, invokes, genExc, genOutcome, ret, tgCalls, msg, url, data,
                   posts, response, tgExc, tgOutcome>>

\* Line 112 and lines 67-77: to_telegram(quote) is called; without credentials it
\* prints and returns, with them it builds url and data.
ToTelegramStart ==
    /\ pc = "tg_start"
    /\ tgCalls' = tgCalls + 1
    /\ msg' = quote
    /\ IF CredentialsMissing(TELEGRAM_TOKEN, TELEGRAM_CHAT_ID)
       THEN /\ log' = Append(log, Line("to_telegram", CredentialsMissingMsg))
            /\ tgOutcome' = "returned"
            /\ pc' = "tg_end"
            /\ UNCHANGED <<url, data>>
       ELSE /\ url' = Url(TELEGRAM_TOKEN)
            /\ data' = Data(TELEGRAM_CHAT_ID, quote)
            /\ pc' = "tg_post"
            /\ UNCHANGED <<log, tgOutcome>>
    /\ UNCHANGED <<GOOGLE_API_KEY, TELEGRAM_TOKEN, TELEGRAM_CHAT_ID, attempts, slept,
                   ctorCalls, invokes, genExc, genOutcome, ret, quote, posts, response,
                   tgExc>>

\* Lines 81-89: requests.post(url, json=data), then the status check, or a raise.
PostToTelegram ==
    /\ pc = "tg_post"
    /\ posts' = Append(posts, [url |-> url, json |-> data])
    /\ \/ \E r \in Responses :
            /\ response' = r
            /\ log' = log \o ResponseLines(r)
            /\ tgOutcome' = "returned"
            /\ pc' = "tg_end"
            /\ UNCHANGED tgExc
       \/ \E e \in TransportErrors(TELEGRAM_TOKEN) :
            /\ tgExc' = e
            /\ pc' = "tg_except"
            /\ UNCHANGED <<response, log, tgOutcome>>
    /\ UNCHANGED <<GOOGLE_API_KEY, TELEGRAM_TOKEN, TELEGRAM_CHAT_ID, attempts, slept,
                   ctorCalls, invokes, genExc, genOutcome, ret, quote, tgCalls, msg, url,
                   data>>

\* Lines 91-103: the handler classifies and prints, then the body ends normally.
ToTelegramExcept ==
    /\ pc = "tg_except"
    /\ IF TgCatches(tgExc.cls)
       THEN /\ log' = Append(log, Line("to_telegram", TelegramSafeMsg(tgExc.text)))
            /\ tgOutcome' = "returned"
       ELSE /\ tgOutcome' = "raised"
            /\ UNCHANGED log
    /\ pc' = "tg_end"
    /\ UNCHANGED <<GOOGLE_API_KEY, TELEGRAM_TOKEN, TELEGRAM_CHAT_ID, attempts, slept,
                   ctorCalls, invokes, genExc, genOutcome, ret, quote, tgCalls, msg, url,
                   data, posts, response, tgExc>>

\* Line 62 and the end of main_flow: to_telegram has no retries, so a body that
\* returned completes the flow and a body that raised fails it.
ToTelegramEnd ==
    /\ pc = "tg_end"
    /\ IF tgOutcome = "returned" THEN pc' = "done" ELSE pc' = "failed"
    /\ UNCHANGED <<GOOGLE_API_KEY, TELEGRAM_TOKEN, TELEGRAM_CHAT_ID, log, attempts,
                   slept, ctorCalls, invokes, genExc, genOutcome, ret, quote, tgCalls,
                   msg, url, data, posts, response, tgExc, tgOutcome>>

Next ==
    \/ GenerateQuoteStart
    \/ ConstructLLM
    \/ InvokeLLM
    \/ GenerateQuoteExcept
    \/ GenerateQuoteEnd
    \/ ToTelegramStart
    \/ PostToTelegram
    \/ ToTelegramExcept
    \/ ToTelegramEnd

Spec == Init /\ [][Next]_vars

----------------------------------------------------------------------------
\* Properties

\* The lines one task has printed, in order.
LinesOf(task) == SelectSeq(log, LAMBDA l : l.task = task)

\* The flow run is over.
Terminal == pc \in {"done", "failed"}

\* The generation stage is over and its result is with main_flow.
Generated == pc \in {"tg_start", "tg_post", "tg_except", "tg_end", "done"}

\* A credential is absent: unset, or set to the empty string.
Absent(v) == v.none \/ v.s = <<>>

\* 'Telegram Refused: Status Code 403'
Refused403Text ==
    <<"T","e","l","e","g","r","a","m"," ","R","e","f","u","s","e","d",":"," ","S","t","a",
      "t","u","s"," ","C","o","d","e"," ","4","0","3">>

\* 'Error Details: {"error":"bad"}'
DetailsBadText ==
    <<"E","r","r","o","r"," ","D","e","t","a","i","l","s",":"," ","{","\"","e","r","r","o",
      "r","\"",":","\"","b","a","d","\"","}">>

\* 'Stay hungry.'
StayHungryText ==
    <<"S","t","a","y"," ","h","u","n","g","r","y",".">>

\* 'Markdown'
MarkdownText ==
    <<"M","a","r","k","d","o","w","n">>

\* C1: to_telegram is invoked at most once, never before generate_quote has
\* returned, and exactly once in every finished run, whether generate_quote
\* returned a quote or a classified error message; no run ends without it.
C1_NotifierOnceAfterGenerator ==
    /\ tgCalls <= 1
    /\ tgCalls = 1 => genOutcome = "returned"
    /\ ~Generated => tgCalls = 0
    /\ Terminal => tgCalls = 1

\* C1 witness: a run whose model call raised has finished with to_telegram called.
C1_Witness ==
    /\ pc = "done"
    /\ invokes = 1
    /\ genExc # NoExc
    /\ tgCalls = 1

\* C2: every POST carries the JSON body {chat_id: TELEGRAM_CHAT_ID, text: the
\* string generate_quote returned, parse_mode: "Markdown"}.
C2_BodyCarriesGeneratorText ==
    \A i \in DOMAIN posts :
        /\ ~ret.none
        /\ posts[i].json =
             [chat_id |-> TELEGRAM_CHAT_ID, text |-> ret, parse_mode |-> MarkdownText]
        /\ \A e \in ModelErrors(GOOGLE_API_KEY) \cup CtorErrors(GOOGLE_API_KEY) :
             genExc = e => posts[i].json.text.s \in
                 {GeminiAuthMsg, GeminiQuotaMsg, GeminiNetworkMsg, GeminiInternalMsg}

\* C2 witness: the quote "Stay hungry." has been posted.
C2_Witness ==
    /\ Len(posts) = 1
    /\ ret = PyStr(StayHungryText)
    /\ posts[1].json.text.s = StayHungryText

\* C3: neither task body ever ends by raising; generate_quote's result is a
\* string whatever the model call did, to_telegram ends normally whatever the
\* POST did, and a run stops only in its terminal state, after to_telegram.
C3_NoExceptionEscapes ==
    /\ genOutcome # "raised"
    /\ tgOutcome # "raised"
    /\ pc # "failed"
    /\ genOutcome = "returned" => ~ret.none
    /\ Generated => ~quote.none
    /\ pc = "done" => tgOutcome = "returned"
    /\ pc = "done" \/ ENABLED Next

\* C3 witness: both remote calls raised and the run still completed.
C3_Witness ==
    /\ pc = "done"
    /\ invokes = 1
    /\ genExc # NoExc
    /\ tgExc # NoExc

\* C4: when the handler of generate_quote has run, the result follows the
\* priority order auth (401, api_key), quota (429, quota), network (connection),
\* internal, on the lower-cased exception text; it is the line printed last by
\* generate_quote and one of the four fixed messages.
C4_GeminiClassification ==
    (genOutcome = "returned" /\ genExc # NoExc) =>
        LET error_str == Lower(genExc.text)
            auth == Contains(error_str, N401) \/ Contains(error_str, NApiKey)
            quota == Contains(error_str, N429) \/ Contains(error_str, NQuota)
            network == Contains(error_str, NConnection)
            printed == LinesOf("generate_quote")
        IN  /\ auth => ret.s = GeminiAuthMsg
            /\ (~auth /\ quota) => ret.s = GeminiQuotaMsg
            /\ (~auth /\ ~quota /\ network) => ret.s = GeminiNetworkMsg
            /\ (~auth /\ ~quota /\ ~network) => ret.s = GeminiInternalMsg
            /\ genExc.text = TxtApiKey => ret.s = GeminiAuthMsg
            /\ genExc.text = TxtQuota => ret.s = GeminiQuotaMsg
            /\ genExc.text = Txt401And429 => ret.s = GeminiAuthMsg
            /\ printed[Len(printed)].text = ret.s
            /\ ret.s \in {GeminiAuthMsg, GeminiQuotaMsg, GeminiNetworkMsg, GeminiInternalMsg}

\* C4 witness: a text holding both "401" and "429" was classified as auth.
C4_Witness ==
    /\ genOutcome = "returned"
    /\ genExc.text = Txt401And429
    /\ ret.s = GeminiAuthMsg

\* C5: when the model call raised, the result reaches the Notifier only after
\* retries: between one and `retries` further attempts, retry_delay_seconds apart.
C5_RetriesAfterRaise ==
    (Generated /\ genExc # NoExc) =>
        /\ attempts \in 2..(1 + retries)
        /\ slept = retry_delay_seconds * (attempts - 1)

\* C6: with the token or the chat id absent, to_telegram makes no POST, prints
\* exactly one line (the credentials error) and returns; a POST implies both
\* credentials are present.
C6_MissingCredentialsShortCircuit ==
    LET missing == Absent(TELEGRAM_TOKEN) \/ Absent(TELEGRAM_CHAT_ID) IN
    /\ missing => (Len(posts) = 0 /\ pc \notin {"tg_post", "tg_except"})
    /\ (missing /\ tgCalls = 1) =>
          /\ LinesOf("to_telegram") = <<Line("to_telegram", CredentialsMissingMsg)>>
          /\ tgOutcome = "returned"
    /\ (Len(posts) > 0 \/ pc = "tg_post") => ~missing
    /\ (~missing /\ pc = "done") => Len(posts) = 1

\* C6 witness: only the chat id is absent, and the run finished without a POST.
C6_Witness ==
    /\ pc = "done"
    /\ ~Absent(TELEGRAM_TOKEN)
    /\ Absent(TELEGRAM_CHAT_ID)
    /\ Len(posts) = 0

\* C7: no printed line holds the API key, the bot token or the endpoint URL, and
\* no printed line holds the text of an exception that was caught.
C7_NoSecretInLog ==
    \A i \in DOMAIN log :
        /\ ~Absent(GOOGLE_API_KEY) => ~Contains(log[i].text, GOOGLE_API_KEY.s)
        /\ ~Absent(TELEGRAM_TOKEN) =>
              /\ ~Contains(log[i].text, TELEGRAM_TOKEN.s)
              /\ ~Contains(log[i].text, UrlPrefix \o TELEGRAM_TOKEN.s \o UrlSuffix)
        /\ genExc # NoExc => ~Contains(log[i].text, genExc.text)
        /\ tgExc # NoExc => ~Contains(log[i].text, tgExc.text)

\* C7 witness: both calls raised with a text that quotes a secret, and both
\* handlers have printed.
C7_Witness ==
    /\ pc = "done"
    /\ Contains(genExc.text, ApiKeyValue)
    /\ Contains(tgExc.text, TokenValue)
    /\ Len(LinesOf("to_telegram")) = 1

\* C8: once a response was received, to_telegram's prints depend on the status
\* code only: 200 gives the success line alone, any other status the status
\* line and the body line; no transport classification line is printed and
\* the body ends normally.
C8_StatusBranch ==
    response # NoResponse =>
        LET printed == LinesOf("to_telegram") IN
        /\ tgExc = NoExc
        /\ tgOutcome = "returned"
        /\ response.status_code = 200 => printed = <<Line("to_telegram", SuccessMsg)>>
        /\ response.status_code # 200 =>
              /\ Len(printed) = 2
              /\ printed[1].text = RefusedPrefix \o IntToStr(response.status_code)
              /\ printed[2].text = DetailsPrefix \o response.text
              /\ \A i \in DOMAIN printed : printed[i].text # SuccessMsg
        /\ response = Response(403, BodyBad) =>
              /\ printed[1].text = Refused403Text
              /\ printed[2].text = DetailsBadText
        /\ \A i \in DOMAIN printed :
              printed[i].text \notin {TgNetworkMsg, TgTimeoutMsg, TgSSLMsg, TgUnknownMsg}

\* C8 witness: Telegram answered 403 with the body {"error":"bad"} and the run finished.
C8_Witness ==
    /\ pc = "done"
    /\ response = Response(403, BodyBad)

\* C9: when the POST raised, to_telegram prints exactly one of four distinct
\* lines, by the priority order network (connection, dns), timeout, ssl,
\* unknown on the lower-cased text; it makes at most one POST and ends normally.
C9_TransportClassification ==
    /\ Len(posts) <= 1
    /\ Cardinality({TgNetworkMsg, TgTimeoutMsg, TgSSLMsg, TgUnknownMsg}) = 4
    /\ (tgExc # NoExc /\ pc \in {"tg_end", "done"}) =>
        LET error_str == Lower(tgExc.text)
            network == Contains(error_str, NConnection) \/ Contains(error_str, NDns)
            timeout == Contains(error_str, NTimeout)
            ssl == Contains(error_str, NSsl)
            printed == LinesOf("to_telegram")
        IN  /\ Len(printed) = 1
            /\ network => printed[1].text = TgNetworkMsg
            /\ (~network /\ timeout) => printed[1].text = TgTimeoutMsg
            /\ (~network /\ ~timeout /\ ssl) => printed[1].text = TgSSLMsg
            /\ (~network /\ ~timeout /\ ~ssl) => printed[1].text = TgUnknownMsg
            /\ tgExc.text = TxtDns => printed[1].text = TgNetworkMsg
            /\ tgExc.text = TxtSslTimeout => printed[1].text = TgTimeoutMsg
            /\ tgOutcome = "returned"
            /\ response = NoResponse
            /\ Len(posts) = 1

\* C9 witness: a text holding both "connection" and "timeout" was printed as
\* the network error, and the run finished.
C9_Witness ==
    /\ pc = "done"
    /\ Contains(Lower(tgExc.text), NConnection)
    /\ Contains(Lower(tgExc.text), NTimeout)
    /\ LinesOf("to_telegram") = <<Line("to_telegram", TgNetworkMsg)>>

\* C10 as stated: llm.invoke is made exactly once in every run, before
\* to_telegram is entered and whatever the Telegram credentials are, and the
\* task wrapper never re-runs generate_quote.
C10_InvokeExactlyOnce ==
    /\ invokes <= 1
    /\ attempts <= 1
    /\ slept = 0
    /\ Generated => invokes = 1

\* C10 amended: llm.invoke is made at most once in every run, and exactly once
\* unless building the client raised; this holds whatever the Telegram
\* credentials are, and the task wrapper never re-runs generate_quote.
C10_InvokeOnceUnlessCtorRaised ==
    /\ invokes <= 1
    /\ attempts <= 1
    /\ ctorCalls <= 1
    /\ slept = 0
    /\ genOutcome # "raised"
    /\ tgCalls = 1 => attempts = 1
    /\ Generated =>
          \/ invokes = 1
          \/ invokes = 0 /\ genExc \in CtorErrors(GOOGLE_API_KEY)

\* C10 witness: the Telegram credentials are missing, the model call was made
\* and raised, and the run finished after a single attempt.
C10_Witness ==
    /\ pc = "done"
    /\ Absent(TELEGRAM_TOKEN)
    /\ invokes = 1
    /\ genExc # NoExc
    /\ attempts = 1

====
